---- MODULE Spec2Model ----
(***************************************************************************)
(* Model of backend/server.py: the shopping-list service's auth routes     *)
(* (register, login, get_current_user), the category and item routes and   *)
(* the MongoDB collections they read and write.                            *)
(*                                                                         *)
(* Every `await db....` of a handler is one atomic store operation and one *)
(* action here; requests in flight interleave between their store          *)
(* operations.  An input that a handler does not use before a later store  *)
(* operation is drawn at the step that first uses it.  The server keeps no *)
(* record of the tokens it hands out, so the tokens a client may present   *)
(* are computed from the store: those register and login hand out.        *)
(* `last` records the step just taken and the response it sent, if any.    *)
(***************************************************************************)
EXTENDS Integers, Sequences, FiniteSets, Bags, TLC

\* ------------------------------------------------------------------ bounds
MaxUsers == 2      \* user records ever inserted
MaxItems == 1      \* shopping items ever inserted
MaxCats == 1       \* categories ever created through create_category
MaxInflight == 2   \* requests in flight at once
MaxNow == 2        \* last instant of the model clock

Usernames == {"alice", "bob"}
Passwords == {"pw123", "pw456"}
Salts == {"salt-a", "salt-b"}
\* str(uuid.uuid4()): the n-th identifier drawn for a collection.
Uuid(prefix, n) == prefix \o ToString(n)

\* ------------------------------------------------------- program constants
None == "null"
JWT_SECRET == "your-secret-key-change-in-production"
JWT_ALGORITHM == "HS256"
JWT_EXPIRATION_HOURS == 24 * 7
\* The clock counts token lifetimes: one tick is JWT_EXPIRATION_HOURS hours.
HoursPerTick == JWT_EXPIRATION_HOURS
Lifetime == JWT_EXPIRATION_HOURS \div HoursPerTick
\* cursor.to_list(1000)
ListLimit == 1000

VARIABLES
    now,          \* datetime.now(timezone.utc), in ticks
    users,        \* db.users: set of {id, username, password_hash, created_at}
    categories,   \* db.categories, in insertion order
    items,        \* db.shopping_items: set of documents
    nextItem,     \* number of item identifiers drawn so far
    reqs,         \* requests in flight: a bag of handler positions and locals
    last          \* the step just taken: its route, requester and response

vars == <<now, users, categories, items, nextItem, reqs, last>>

\* ----------------------------------------------------------------- values
NoHash == [salt |-> None, digest |-> <<>>]
NoUser == [id |-> None, username |-> None, password_hash |-> NoHash, created_at |-> 0]
NoView == [id |-> None, username |-> None, created_at |-> 0]
NoToken == [user_id |-> None, username |-> None, exp |-> 0, key |-> None, alg |-> None]
NoItem == [id |-> None, user_id |-> None, description |-> None, photo_url |-> None,
           category_id |-> None, is_purchased |-> FALSE, created_at |-> 0, updated_at |-> 0]
NoCategory == [id |-> None, name |-> None, color |-> None, icon |-> None, user_id |-> None,
               created_at |-> 0]
NoPatch == [description |-> None, photo_url |-> None, category_id |-> None]
NoUrl == <<>>

Min(a, b) == IF a < b THEN a ELSE b

\* class User: the response model; extra="ignore" drops password_hash.
\* The stored document returned as it is.
User_Raw(doc) == doc

User(doc) == [id |-> doc.id, username |-> doc.username, created_at |-> doc.created_at]

\* bcrypt.hashpw(password, salt): the salt is embedded in the result.
hashpw(password, salt) == [salt |-> salt, digest |-> <<salt, password>>]

hash_password(password, salt) == hashpw(password, salt)

verify_password(password, hashed) == hashpw(password, hashed.salt) = hashed

create_jwt_token(user_id, username, t) ==
    [user_id |-> user_id, username |-> username, exp |-> t + Lifetime,
     key |-> JWT_SECRET, alg |-> JWT_ALGORITHM]

\* decode_jwt_token checking the expiration before the signature.
decode_jwt_token_ExpFirst(token, t) ==
    IF token.exp <= t
    THEN [ok |-> FALSE, status |-> 401, detail |-> "Token expirado", payload |-> NoToken]
    ELSE IF token.key # JWT_SECRET \/ token.alg # JWT_ALGORITHM
    THEN [ok |-> FALSE, status |-> 401, detail |-> "Token invalido", payload |-> NoToken]
    ELSE [ok |-> TRUE, status |-> 200, detail |-> "", payload |-> token]

\* decode_jwt_token still accepting a token at the instant it expires.
decode_jwt_token_Late(token, t) ==
    IF token.key # JWT_SECRET \/ token.alg # JWT_ALGORITHM
    THEN [ok |-> FALSE, status |-> 401, detail |-> "Token invalido", payload |-> NoToken]
    ELSE IF token.exp < t
    THEN [ok |-> FALSE, status |-> 401, detail |-> "Token expirado", payload |-> NoToken]
    ELSE [ok |-> TRUE, status |-> 200, detail |-> "", payload |-> token]

\* jwt.decode as decode_jwt_token wraps it: the signature is verified first
\* (InvalidTokenError), then the exp claim (ExpiredSignatureError, raised when
\* exp <= now).
decode_jwt_token(token, t) ==
    IF token.key # JWT_SECRET \/ token.alg # JWT_ALGORITHM
    THEN [ok |-> FALSE, status |-> 401, detail |-> "Token invalido", payload |-> NoToken]
    ELSE IF token.exp <= t
    THEN [ok |-> FALSE, status |-> 401, detail |-> "Token expirado", payload |-> NoToken]
    ELSE [ok |-> TRUE, status |-> 200, detail |-> "", payload |-> token]

\* db.users.find_one({"id": user_id}) and ({"username": username}): the
\* documents the filter matches; find_one returns one of them.
UsersById(coll, user_id) == {u \in coll : u.id = user_id}

UsersByName(coll, username) == {u \in coll : u.username = username}

\* get_current_user without its "if not user" check: find_one's None is the user.
get_current_user_NoCheck(token, t, coll) ==
    LET d == decode_jwt_token(token, t)
    IN IF ~d.ok THEN {[ok |-> FALSE, status |-> d.status, detail |-> d.detail, user |-> NoUser]}
       ELSE IF UsersById(coll, d.payload.user_id) = {}
       THEN {[ok |-> TRUE, status |-> 200, detail |-> "", user |-> NoUser]}
       ELSE {[ok |-> TRUE, status |-> 200, detail |-> "", user |-> u] :
                u \in UsersById(coll, d.payload.user_id)}

\* get_current_user: the outcomes of resolving a presented token.
get_current_user(token, t, coll) ==
    LET d == decode_jwt_token(token, t)
    IN IF ~d.ok THEN {[ok |-> FALSE, status |-> d.status, detail |-> d.detail, user |-> NoUser]}
       ELSE IF UsersById(coll, d.payload.user_id) = {}
       THEN {[ok |-> FALSE, status |-> 401, detail |-> "Usuario nao encontrado", user |-> NoUser]}
       ELSE {[ok |-> TRUE, status |-> 200, detail |-> "", user |-> u] :
                u \in UsersById(coll, d.payload.user_id)}

\* initialize_default_categories: the documents seeded at startup.
default_categories ==
    << [id |-> "cat-1", name |-> "Frutas", color |-> "#10b981", icon |-> "apple", user_id |-> None],
       [id |-> "cat-2", name |-> "Carnes", color |-> "#ef4444", icon |-> "beef", user_id |-> None],
       [id |-> "cat-3", name |-> "Limpeza", color |-> "#3b82f6", icon |-> "sparkles", user_id |-> None],
       [id |-> "cat-4", name |-> "Laticinios", color |-> "#f59e0b", icon |-> "milk", user_id |-> None],
       [id |-> "cat-5", name |-> "Padaria", color |-> "#8b5cf6", icon |-> "wheat", user_id |-> None],
       [id |-> "cat-6", name |-> "Bebidas", color |-> "#06b6d4", icon |-> "cup-soda", user_id |-> None],
       [id |-> "cat-7", name |-> "Congelados", color |-> "#6366f1", icon |-> "snowflake", user_id |-> None],
       [id |-> "cat-8", name |-> "Outros", color |-> "#64748b", icon |-> "package", user_id |-> None] >>

\* The collection after startup_event: each default inserted with created_at.
SeededCategories(t) ==
    [i \in 1..Len(default_categories) |->
        [id |-> default_categories[i].id, name |-> default_categories[i].name,
         color |-> default_categories[i].color, icon |-> default_categories[i].icon,
         user_id |-> default_categories[i].user_id, created_at |-> t]]

\* ------------------------------------------------------- requests, replies
\* A request in flight: where its handler is suspended, and its locals.
Request(pc, current_user) ==
    [pc |-> pc, current_user |-> current_user, username |-> None, password |-> None,
     item_id |-> None, item |-> NoItem, new_status |-> FALSE, cat |-> 0]

\* The record of a step of route op; status 0 when the step sends no response.
Reply(op, step, status, detail) ==
    [op |-> op, step |-> step, status |-> status, detail |-> detail, uid |-> None,
     username |-> None, password |-> None, item_id |-> None, token |-> NoToken,
     user |-> NoView, list |-> <<>>, item |-> NoItem, category |-> NoCategory,
     patch |-> NoPatch, url |-> NoUrl]

Started(r) == reqs' = reqs (+) SetToBag({r})

Finished(r) == reqs' = reqs (-) SetToBag({r})

Moved(r, r2) == reqs' = (reqs (-) SetToBag({r})) (+) SetToBag({r2})

InFlight(pc) == {r \in BagToSet(reqs) : r.pc = pc}

Init ==
    /\ now = 0
    /\ users = {}
    /\ categories = SeededCategories(0)
    /\ items = {}
    /\ nextItem = 0
    /\ reqs = EmptyBag
    /\ last = Reply("none", "none", 0, "")

\* ----------------------------------------------------------------- startup
\* The startup task of initialize_default_categories in flight, if any; the
\* routes are served once it has returned.
Seeding == InFlight("seed_find") \cup InFlight("seed_insert")

Serving == Seeding = {}

\* The process starts: startup_event calls initialize_default_categories;
\* requests of an earlier process are gone.
Startup ==
    /\ Serving
    /\ reqs' = SetToBag({[Request("seed_find", NoUser) EXCEPT !.cat = 1]})
    /\ last' = Reply("startup", "start", 0, "")
    /\ UNCHANGED <<now, users, categories, items, nextItem>>

\* The loop goes on to the next default category, or returns.
SeedNext(r) ==
    IF r.cat < Len(default_categories)
    THEN Moved(r, [r EXCEPT !.pc = "seed_find", !.cat = r.cat + 1])
    ELSE Finished(r)

\* The loop inserting without looking for the id first.
SeedFind_NoCheck(r) ==
    /\ r.pc = "seed_find"
    /\ Moved(r, [r EXCEPT !.pc = "seed_insert"])
    /\ last' = Reply("startup", "find", 0, "")
    /\ UNCHANGED <<now, users, categories, items, nextItem>>

\* existing = await db.categories.find_one({"id": cat["id"]})
SeedFind(r) ==
    /\ r.pc = "seed_find"
    /\ IF \E i \in 1..Len(categories) : categories[i].id = default_categories[r.cat].id
       THEN SeedNext(r)
       ELSE Moved(r, [r EXCEPT !.pc = "seed_insert"])
    /\ last' = Reply("startup", "find", 0, "")
    /\ UNCHANGED <<now, users, categories, items, nextItem>>

\* cat['created_at'] = ...; await db.categories.insert_one(cat)
SeedInsert(r) ==
    /\ r.pc = "seed_insert"
    /\ categories' = Append(categories, SeededCategories(now)[r.cat])
    /\ SeedNext(r)
    /\ last' = Reply("startup", "insert", 0, "")
    /\ UNCHANGED <<now, users, items, nextItem>>

\* --------------------------------------------------------------- the clock
Tick ==
    /\ now' = now + 1
    /\ last' = Reply("tick", "none", 0, "")
    /\ UNCHANGED <<users, categories, items, nextItem, reqs>>

\* ------------------------------------------------------------ auth routes
\* register without its "if existing_user" check.
RegisterFind_NoCheck(username, password) ==
    /\ Started([Request("reg_insert", NoUser) EXCEPT !.username = username,
                                                      !.password = password])
    /\ last' = [Reply("register", "find", 0, "") EXCEPT
                   !.username = username, !.password = password]
    /\ UNCHANGED <<now, users, categories, items, nextItem>>

\* register, up to and including `await db.users.find_one(...)`.
RegisterFind(username, password) ==
    /\ IF UsersByName(users, username) # {}
       THEN /\ last' = [Reply("register", "find", 400, "Usuario ja existe") EXCEPT
                           !.username = username, !.password = password]
            /\ UNCHANGED reqs
       ELSE /\ Started([Request("reg_insert", NoUser) EXCEPT !.username = username,
                                                             !.password = password])
            /\ last' = [Reply("register", "find", 0, "") EXCEPT
                           !.username = username, !.password = password]
    /\ UNCHANGED <<now, users, categories, items, nextItem>>

\* register, from User(...) through insert_one to the TokenResponse.
RegisterInsert(r, salt) ==
    /\ r.pc = "reg_insert"
    /\ LET user == [id |-> Uuid("user-", Cardinality(users) + 1), username |-> r.username,
                    created_at |-> now]
           user_dict == [id |-> user.id, username |-> user.username,
                         password_hash |-> hash_password(r.password, salt),
                         created_at |-> user.created_at]
           token == create_jwt_token(user.id, user.username, now)
       IN /\ users' = users \cup {user_dict}
          /\ last' = [Reply("register", "insert", 200, "") EXCEPT
                         !.username = r.username, !.password = r.password,
                         !.uid = user.id, !.token = token, !.user = user]
    /\ Finished(r)
    /\ UNCHANGED <<now, categories, items, nextItem>>

\* login telling an unknown username from a wrong password.
Login_Enumerable(username, password) ==
    /\ LET failed(detail) == [Reply("login", "find", 401, detail) EXCEPT
                                 !.username = username, !.password = password]
       IN IF UsersByName(users, username) = {}
          THEN last' = failed("Usuario nao encontrado")
          ELSE \E user \in UsersByName(users, username) :
                 IF ~verify_password(password, user.password_hash)
                 THEN last' = failed("Usuario ou senha incorretos")
                 ELSE last' = [Reply("login", "find", 200, "") EXCEPT
                                  !.username = username, !.password = password,
                                  !.uid = user.id,
                                  !.token = create_jwt_token(user.id, user.username, now),
                                  !.user = User(user)]
    /\ UNCHANGED <<now, users, categories, items, nextItem, reqs>>

\* login storing a fresh hash of the password it has just verified.
Login_Rehash(username, password) ==
    /\ LET failed == [Reply("login", "find", 401, "Usuario ou senha incorretos") EXCEPT
                         !.username = username, !.password = password]
       IN IF UsersByName(users, username) = {}
          THEN last' = failed /\ UNCHANGED users
          ELSE \E user \in UsersByName(users, username) :
                 IF ~verify_password(password, user.password_hash)
                 THEN last' = failed /\ UNCHANGED users
                 ELSE /\ users' = (users \ {user}) \cup
                                    {[user EXCEPT !.password_hash = hash_password(password, "salt-b")]}
                      /\ last' = [Reply("login", "find", 200, "") EXCEPT
                                     !.username = username, !.password = password,
                                     !.uid = user.id,
                                     !.token = create_jwt_token(user.id, user.username, now),
                                     !.user = User(user)]
    /\ UNCHANGED <<now, categories, items, nextItem, reqs>>

\* login: one find_one, then verify_password and the token.
Login(username, password) ==
    /\ LET failed == [Reply("login", "find", 401, "Usuario ou senha incorretos") EXCEPT
                         !.username = username, !.password = password]
       IN IF UsersByName(users, username) = {}
          THEN last' = failed
          ELSE \E user \in UsersByName(users, username) :
                 IF ~verify_password(password, user.password_hash)
                 THEN last' = failed
                 ELSE last' = [Reply("login", "find", 200, "") EXCEPT
                                  !.username = username, !.password = password,
                                  !.uid = user.id,
                                  !.token = create_jwt_token(user.id, user.username, now),
                                  !.user = User(user)]
    /\ UNCHANGED <<now, users, categories, items, nextItem, reqs>>

\* The tokens handed out so far at most: to each user by register at
\* created_at and by a login at any instant since.
Issued(coll, t) ==
    {create_jwt_token(x[1].id, x[1].username, x[2]) :
        x \in {y \in coll \X (0..t) : y[2] >= y[1].created_at}}

\* The bearer credentials a client may present: a token that was handed out,
\* or a copy of one that is not signed with JWT_SECRET.
Presentable(coll, t) == Issued(coll, t) \cup {[k EXCEPT !.key = "forged"] : k \in Issued(coll, t)}

\* Depends(get_current_user) of a protected route.
Authenticate(token) ==
    /\ \E a \in get_current_user(token, now, users) :
          IF a.ok
          THEN /\ Started(Request("authed", a.user))
               /\ last' = [Reply("auth", "resolve", 0, "") EXCEPT !.token = token, !.uid = a.user.id]
          ELSE /\ last' = [Reply("auth", "resolve", a.status, a.detail) EXCEPT !.token = token]
               /\ UNCHANGED reqs
    /\ UNCHANGED <<now, users, categories, items, nextItem>>

\* HTTPBearer() of a request that carries no bearer credentials: the
\* dependency raises before get_current_user runs, with 403 or 401 depending
\* on the FastAPI release ("Not authenticated").
NoCredentialsStatus == {401, 403}

AuthenticateNone ==
    /\ \E status \in NoCredentialsStatus :
          last' = Reply("bearer", "credentials", status, "Not authenticated")
    /\ UNCHANGED <<now, users, categories, items, nextItem, reqs>>

\* get_me: no store operation after the dependency.
GetMe(r) ==
    /\ r.pc = "authed"
    /\ last' = [Reply("get_me", "return", 200, "") EXCEPT !.uid = r.current_user.id,
                                                         !.user = User(r.current_user)]
    /\ Finished(r)
    /\ UNCHANGED <<now, users, categories, items, nextItem>>

\* ------------------------------------------------------------ upload route
\* base64.b64encode(contents).decode('utf-8')
b64encode(contents) == <<"base64", contents>>

\* f"data:{mime_type};base64,{base64_image}" with file.content_type or 'image/jpeg'
DataUrl(content_type, contents) ==
    <<"data:", IF content_type = None THEN "image/jpeg" ELSE content_type,
      ";base64,", b64encode(contents)>>

\* upload_image: no store operation after the dependency.
Upload(r, content_type, contents) ==
    /\ r.pc = "authed"
    /\ last' = [Reply("upload_image", "return", 200, "") EXCEPT
                   !.uid = r.current_user.id, !.url = DataUrl(content_type, contents)]
    /\ Finished(r)
    /\ UNCHANGED <<now, users, categories, items, nextItem>>

\* -------------------------------------------------------- category routes
\* cursor.to_list(n): at most the first n documents.
ToList(s, n) == SubSeq(s, 1, Min(Len(s), n))

\* find() without a filter.
CategoryFilter_All(c, user_id) == TRUE

\* The filter {"$or": [{"user_id": None}, {"user_id": user_id}]}.
CategoryFilter(c, user_id) == c.user_id = None \/ c.user_id = user_id

FindCategories(coll, user_id) ==
    ToList(SelectSeq(coll, LAMBDA c : CategoryFilter(c, user_id)), ListLimit)

UserCategories(coll) == SelectSeq(coll, LAMBDA c : c.user_id # None)

GetCategories(r) ==
    /\ r.pc = "authed"
    /\ last' = [Reply("get_categories", "find", 200, "") EXCEPT
                   !.uid = r.current_user.id,
                   !.list = FindCategories(categories, r.current_user.id)]
    /\ Finished(r)
    /\ UNCHANGED <<now, users, categories, items, nextItem>>

\* Category(**category_data.model_dump()): user_id left at its default.
Category_Global(category_data, user_id, id, t) ==
    [id |-> id, name |-> category_data.name, color |-> category_data.color,
     icon |-> category_data.icon, user_id |-> None, created_at |-> t]

\* Category(**category_data.model_dump(), user_id=current_user['id'])
Category(category_data, user_id, id, t) ==
    [id |-> id, name |-> category_data.name, color |-> category_data.color,
     icon |-> category_data.icon, user_id |-> user_id, created_at |-> t]

CreateCategory(r, category_data) ==
    /\ r.pc = "authed"
    /\ LET category == Category(category_data, r.current_user.id,
                                Uuid("ucat-", Len(UserCategories(categories)) + 1), now)
       IN /\ categories' = Append(categories, category)
          /\ last' = [Reply("create_category", "insert", 200, "") EXCEPT
                         !.uid = r.current_user.id, !.category = category]
    /\ Finished(r)
    /\ UNCHANGED <<now, users, items, nextItem>>

\* ------------------------------------------------------------ item routes
\* The filters {"user_id": u}, {"id": i, "user_id": u} and {"id": i}.
ItemsOf(coll, user_id) == {it \in coll : it.user_id = user_id}

\* The find_one / delete_one filter without its "user_id" key.
ItemsOwned_AnyOwner(coll, item_id, user_id) == {it \in coll : it.id = item_id}

ItemsOwned(coll, item_id, user_id) == {it \in coll : it.id = item_id /\ it.user_id = user_id}

ItemsById(coll, item_id) == {it \in coll : it.id = item_id}

\* .sort("created_at", -1): the orders of S that descend in created_at.
SortedDesc(S) ==
    {s \in [1..Cardinality(S) -> S] :
        /\ \A i, j \in 1..Cardinality(S) : i # j => s[i] # s[j]
        /\ \A i, j \in 1..Cardinality(S) : i < j => s[i].created_at >= s[j].created_at}

GetItems(r) ==
    /\ r.pc = "authed"
    /\ \E s \in SortedDesc(ItemsOf(items, r.current_user.id)) :
          last' = [Reply("get_items", "find", 200, "") EXCEPT !.uid = r.current_user.id,
                                                             !.list = ToList(s, ListLimit)]
    /\ Finished(r)
    /\ UNCHANGED <<now, users, categories, items, nextItem>>

\* ShoppingItem(**item_data.model_dump()): no user_id given.
ShoppingItem_NoOwner(item_data, user_id, id, t) ==
    [id |-> id, user_id |-> None, description |-> item_data.description,
     photo_url |-> item_data.photo_url, category_id |-> item_data.category_id,
     is_purchased |-> FALSE, created_at |-> t, updated_at |-> t]

\* ShoppingItem(**item_data.model_dump(), user_id=current_user['id'])
ShoppingItem(item_data, user_id, id, t) ==
    [id |-> id, user_id |-> user_id, description |-> item_data.description,
     photo_url |-> item_data.photo_url, category_id |-> item_data.category_id,
     is_purchased |-> FALSE, created_at |-> t, updated_at |-> t]

CreateItem(r, item_data) ==
    /\ r.pc = "authed"
    /\ LET item == ShoppingItem(item_data, r.current_user.id, Uuid("item-", nextItem + 1), now)
       IN /\ items' = items \cup {item}
          /\ last' = [Reply("create_item", "insert", 200, "") EXCEPT
                         !.uid = r.current_user.id, !.item_id = item.id, !.item = item]
    /\ nextItem' = nextItem + 1
    /\ Finished(r)
    /\ UNCHANGED <<now, users, categories>>

\* The record of a step of request r on item_id.
ItemStep(op, step, status, detail, r, item_id) ==
    [Reply(op, step, status, detail) EXCEPT !.uid = r.current_user.id, !.item_id = item_id]

\* ShoppingItem(**updated_item) of the re-read document; None raises (500).
Reread(op, r, coll) ==
    IF ItemsById(coll, r.item_id) = {}
    THEN {ItemStep(op, "reread", 500, "Internal Server Error", r, r.item_id)}
    ELSE {[ItemStep(op, "reread", 200, "", r, r.item_id) EXCEPT !.item = it] :
             it \in ItemsById(coll, r.item_id)}

\* update_one(..., upsert=True): a document is inserted when none matches.
UpdateOne_Upsert(coll, item_id, set) ==
    IF ItemsById(coll, item_id) = {} THEN {coll \cup {[NoItem EXCEPT !.id = item_id]}}
    ELSE {(coll \ {it}) \cup {set[it]} : it \in ItemsById(coll, item_id)}

\* update_one({"id": item_id}, {"$set": ...}): the collections it may leave.
\* set maps each document with this id to the document after $set.
UpdateOne(coll, item_id, set) ==
    IF ItemsById(coll, item_id) = {} THEN {coll}
    ELSE {(coll \ {it}) \cup {set[it]} : it \in ItemsById(coll, item_id)}

\* update_item, up to and including the ownership-filtered find_one.
UpdateFind(r, item_id) ==
    /\ r.pc = "authed"
    /\ IF ItemsOwned(items, item_id, r.current_user.id) = {}
       THEN /\ last' = ItemStep("update_item", "find", 404, "Item nao encontrado", r, item_id)
            /\ Finished(r)
       ELSE /\ last' = ItemStep("update_item", "find", 0, "", r, item_id)
            /\ Moved(r, [r EXCEPT !.pc = "upd_write", !.item_id = item_id])
    /\ UNCHANGED <<now, users, categories, items, nextItem>>

\* {"$set": item_data.model_dump()}: the fields left out are set to None.
SetUpdate_Overwrite(it, item_data, t) ==
    [it EXCEPT !.description = item_data.description,
               !.photo_url = item_data.photo_url,
               !.category_id = item_data.category_id,
               !.updated_at = t]

\* {"$set": update_data}: the fields given, and updated_at.
SetUpdate(it, item_data, t) ==
    [it EXCEPT !.description = IF item_data.description # None THEN item_data.description ELSE @,
               !.photo_url = IF item_data.photo_url # None THEN item_data.photo_url ELSE @,
               !.category_id = IF item_data.category_id # None THEN item_data.category_id ELSE @,
               !.updated_at = t]

UpdateWrite(r, item_data) ==
    /\ r.pc = "upd_write"
    /\ items' \in UpdateOne(items, r.item_id,
                           [it \in ItemsById(items, r.item_id) |-> SetUpdate(it, item_data, now)])
    /\ last' = [ItemStep("update_item", "write", 0, "", r, r.item_id) EXCEPT !.patch = item_data]
    /\ Moved(r, [r EXCEPT !.pc = "upd_reread"])
    /\ UNCHANGED <<now, users, categories, nextItem>>

UpdateReread(r) ==
    /\ r.pc = "upd_reread"
    /\ last' \in Reread("update_item", r, items)
    /\ Finished(r)
    /\ UNCHANGED <<now, users, categories, items, nextItem>>

\* new_status set to True instead of negated.
NewStatus_Set(it) == TRUE

\* new_status = not item.get('is_purchased', False)
NewStatus(it) == ~it.is_purchased

\* toggle_item, up to new_status.
ToggleFind(r, item_id) ==
    /\ r.pc = "authed"
    /\ IF ItemsOwned(items, item_id, r.current_user.id) = {}
       THEN /\ last' = ItemStep("toggle_item", "find", 404, "Item nao encontrado", r, item_id)
            /\ Finished(r)
       ELSE /\ last' = ItemStep("toggle_item", "find", 0, "", r, item_id)
            /\ \E it \in ItemsOwned(items, item_id, r.current_user.id) :
                 Moved(r, [r EXCEPT !.pc = "tog_write", !.item_id = item_id, !.item = it,
                                    !.new_status = NewStatus(it)])
    /\ UNCHANGED <<now, users, categories, items, nextItem>>

\* The flag negated by the store at the write, whatever find_one had read.
SetToggle_Flip(it, new_status, t) == [it EXCEPT !.is_purchased = ~it.is_purchased, !.updated_at = t]

\* {"$set": {"is_purchased": new_status, "updated_at": ...}}
SetToggle(it, new_status, t) == [it EXCEPT !.is_purchased = new_status, !.updated_at = t]

ToggleWrite(r) ==
    /\ r.pc = "tog_write"
    /\ items' \in UpdateOne(items, r.item_id,
                           [it \in ItemsById(items, r.item_id) |-> SetToggle(it, r.new_status, now)])
    /\ last' = ItemStep("toggle_item", "write", 0, "", r, r.item_id)
    /\ Moved(r, [r EXCEPT !.pc = "tog_reread"])
    /\ UNCHANGED <<now, users, categories, nextItem>>

ToggleReread(r) ==
    /\ r.pc = "tog_reread"
    /\ last' \in Reread("toggle_item", r, items)
    /\ Finished(r)
    /\ UNCHANGED <<now, users, categories, items, nextItem>>

\* delete_one({"id": item_id, "user_id": ...}) and its deleted_count.
DeleteItem(r, item_id) ==
    /\ r.pc = "authed"
    /\ IF ItemsOwned(items, item_id, r.current_user.id) = {}
       THEN /\ last' = ItemStep("delete_item", "delete", 404, "Item nao encontrado", r, item_id)
            /\ UNCHANGED items
       ELSE /\ \E it \in ItemsOwned(items, item_id, r.current_user.id) :
                 items' = items \ {it}
            /\ last' = ItemStep("delete_item", "delete", 200, "Item deletado com sucesso", r, item_id)
    /\ Finished(r)
    /\ UNCHANGED <<now, users, categories, nextItem>>

\* ---------------------------------------------------------- specifications
\* A further request may be taken up.
Room == BagCardinality(reqs) < MaxInflight

\* The registrations past their find_one: each will insert a user record.
Registering == BagCardinality([r \in InFlight("reg_insert") |-> CopiesIn(r, reqs)])

ItemData == [description : {"Milk"}, photo_url : {None}, category_id : {"cat-4"}]
ItemPatch == [description : {None, "Bread"}, photo_url : {None}, category_id : {None}]
CategoryData == [name : {"Pets"}, color : {"#000000"}, icon : {"paw"}]
ItemIds == {Uuid("item-", i) : i \in 1..(MaxItems + 1)}

\* The auth routes.
Next ==
    \/ \E username \in Usernames, password \in Passwords :
          /\ UsersByName(users, username) = {} =>
                Room /\ Cardinality(users) + Registering < MaxUsers
          /\ RegisterFind(username, password)
    \/ \E r \in BagToSet(reqs), salt \in Salts : RegisterInsert(r, salt)
    \/ \E username \in Usernames, password \in Passwords : Login(username, password)
    \/ \E token \in Presentable(users, now) : Room /\ Authenticate(token)
    \/ \E r \in BagToSet(reqs) : GetMe(r)

Spec == Init /\ [][Next]_vars

\* C2: a register call for a username that already has a record in db.users
\* fails with 400 "Usuario ja existe", hands out no token, starts no insert
\* and leaves db.users as it was.
C2_DuplicateRegisterRejected ==
    [][(/\ last'.op = "register"
        /\ last'.step = "find"
        /\ \E u \in users : u.username = last'.username)
       => (/\ last'.status = 400
           /\ last'.detail = "Usuario ja existe"
           /\ last'.token = NoToken
           /\ reqs' = reqs
           /\ users' = users)]_vars

\* A register call has just been refused for a username that has a record.
C2_Witness ==
    /\ last.op = "register"
    /\ last.status = 400
    /\ \E u \in users : u.username = last.username

\* C3: db.users holds at most one record per username, in every reachable
\* state, concurrent registrations of one username included.
C3_OneRecordPerUsername == \A u, v \in users : u.username = v.username => u = v

\* C4: once register(username, password) has succeeded, a login with these
\* credentials succeeds, and its token and the token register returned both
\* resolve to the user that register created.
C4_RegisterThenLogin ==
    \A u \in users :
        (/\ last.op = "login"
         /\ last.username = u.username
         /\ u.password_hash = hashpw(last.password, u.password_hash.salt))
        => (/\ last.status = 200
            /\ \A a \in get_current_user(last.token, now, users) : a.ok /\ a.user.id = u.id
            /\ \A a \in get_current_user(create_jwt_token(u.id, u.username, u.created_at),
                                           now, users) : a.ok /\ a.user.id = u.id)

\* C5: a login for a username without a record and a login with a password
\* that no record of the username verifies fail alike: 401 with the same
\* detail, no token, db.users untouched.
C5_LoginFailuresAlike ==
    [][(/\ last'.op = "login"
        /\ \A u \in users : u.username = last'.username =>
               u.password_hash # hashpw(last'.password, u.password_hash.salt))
       => (/\ last'.status = 401
           /\ last'.detail = "Usuario ou senha incorretos"
           /\ last'.token = NoToken
           /\ last'.uid = None
           /\ users' = users)]_vars

\* A login with a wrong password for a registered username has just failed.
C5_Witness ==
    /\ last.op = "login"
    /\ last.status = 401
    /\ \E u \in users : u.username = last.username

\* The item routes, for two registered users.
TwoUsers ==
    {[id |-> Uuid("user-", 1), username |-> "alice", created_at |-> 0,
      password_hash |-> hash_password("pw123", "salt-a")],
     [id |-> Uuid("user-", 2), username |-> "bob", created_at |-> 0,
      password_hash |-> hash_password("pw456", "salt-b")]}

InitItems ==
    /\ now = 0
    /\ users = TwoUsers
    /\ categories = SeededCategories(0)
    /\ items = {}
    /\ nextItem = 0
    /\ reqs = EmptyBag
    /\ last = Reply("none", "none", 0, "")

NextItems ==
    \/ \E token \in Presentable(users, now) : Room /\ Authenticate(token)
    \/ \E r \in BagToSet(reqs) : GetItems(r)
    \/ \E r \in BagToSet(reqs), item_data \in ItemData : nextItem < MaxItems /\ CreateItem(r, item_data)
    \/ \E r \in BagToSet(reqs), item_id \in ItemIds : UpdateFind(r, item_id)
    \/ \E r \in BagToSet(reqs), item_data \in ItemPatch : UpdateWrite(r, item_data)
    \/ \E r \in BagToSet(reqs) : UpdateReread(r)
    \/ \E r \in BagToSet(reqs), item_id \in ItemIds : ToggleFind(r, item_id)
    \/ \E r \in BagToSet(reqs) : ToggleWrite(r)
    \/ \E r \in BagToSet(reqs) : ToggleReread(r)
    \/ \E r \in BagToSet(reqs), item_id \in ItemIds : DeleteItem(r, item_id)

SpecItems == InitItems /\ [][NextItems]_vars

\* C1: a step taken for a user who does not own a stored item leaves that
\* item stored with every field as it was; if the step names the item's id
\* (update, toggle, delete) it answers 404 "Item nao encontrado"; if it is a
\* get_items listing, the item is not in the list.
C1_ItemIsolation ==
    [][\A it \in items :
          last'.uid # it.user_id
          => (/\ it \in items'
              /\ last'.item_id = it.id =>
                    (last'.status = 404 /\ last'.detail = "Item nao encontrado")
              /\ last'.op = "get_items" =>
                    \A i \in 1..Len(last'.list) : last'.list[i].id # it.id)]_vars

\* An update, toggle or delete that names another user's stored item was
\* just answered 404.
C1_Witness ==
    /\ last.op \in {"update_item", "toggle_item", "delete_item"}
    /\ last.status = 404
    /\ \E it \in items : it.id = last.item_id /\ it.user_id # last.uid

\* The toggle requests whose write is the step being taken.
ToggleWriting ==
    {r \in InFlight("tog_write") :
        /\ last'.op = "toggle_item"
        /\ last'.step = "write"
        /\ CopiesIn(r, reqs') < CopiesIn(r, reqs)}

\* C10: when the owner's toggle writes and the stored item is still the
\* document its find_one read, the stored purchased flag becomes the
\* negation of what it was and nothing else but updated_at changes; toggling
\* a stored item twice in succession gives back its purchased flag.
C10_ToggleNegates ==
    /\ [][\A r \in ToggleWriting :
             (r.item \in items /\ r.item.user_id = r.current_user.id)
             => items' = (items \ {r.item})
                           \cup {[r.item EXCEPT !.is_purchased = ~r.item.is_purchased,
                                                !.updated_at = now]}]_vars
    /\ [](\A it \in items :
             LET once == SetToggle(it, NewStatus(it), now)
                 twice == SetToggle(once, NewStatus(once), now)
             IN /\ once.is_purchased = ~it.is_purchased
                /\ twice.is_purchased = it.is_purchased)

\* A toggle just answered with the item not purchased: the item, created not
\* purchased, has been toggled and toggled back.
C10_Witness ==
    /\ last.op = "toggle_item"
    /\ last.step = "reread"
    /\ last.status = 200
    /\ last.item.user_id = last.uid
    /\ ~last.item.is_purchased

\* The category routes, for two registered users.
NextCategories ==
    \/ now < MaxNow /\ Tick
    \/ \E token \in Presentable(users, now) : Room /\ Authenticate(token)
    \/ \E r \in BagToSet(reqs) : GetCategories(r)
    \/ \E r \in BagToSet(reqs), category_data \in CategoryData :
          Len(UserCategories(categories)) < MaxCats /\ CreateCategory(r, category_data)

SpecCategories == InitItems /\ [][NextCategories]_vars

\* The stored categories without an owner, in store order.
GlobalCategories == SelectSeq(categories, LAMBDA c : c.user_id = None)

\* C9: a category made by create_category is stored with the requester's id
\* as user_id, never null; the categories with user_id null are the seeded
\* ones, with their contents, in every reachable state.
C9_OwnedCategoriesOnly ==
    /\ GlobalCategories = SeededCategories(0)
    /\ \A i \in 1..Len(categories) :
          categories[i].user_id # None => \E u \in users : u.id = categories[i].user_id
    /\ last.op = "create_category"
       => (/\ last.uid # None
           /\ last.category.user_id = last.uid
           /\ \E i \in 1..Len(categories) : categories[i] = last.category)

\* create_category has just stored a category.
C9_Witness ==
    /\ last.op = "create_category"
    /\ last.status = 200
    /\ Len(categories) > Len(default_categories)

\* The category routes when alice already has as many categories as fill a
\* listing of ListLimit entries together with the seeded ones.
Backlog == ListLimit - Len(default_categories)

InitListLimit ==
    /\ now = 0
    /\ users = TwoUsers
    /\ categories = SeededCategories(0) \o
                      [i \in 1..Backlog |->
                          Category(CHOOSE d \in CategoryData : TRUE, Uuid("user-", 1),
                                   Uuid("ucat-", i), 0)]
    /\ items = {}
    /\ nextItem = 0
    /\ reqs = EmptyBag
    /\ last = Reply("none", "none", 0, "")

NextListLimit ==
    \/ now < MaxNow /\ Tick
    \/ \E token \in Presentable(users, now) : Room /\ Authenticate(token)
    \/ \E r \in BagToSet(reqs) : GetCategories(r)
    \/ \E r \in BagToSet(reqs), category_data \in CategoryData :
          Len(UserCategories(categories)) < Backlog + MaxCats /\ CreateCategory(r, category_data)

SpecListLimit == InitListLimit /\ [][NextListLimit]_vars

\* The stored categories a listing for the user of the last step matches,
\* and the categories that listing holds.
Matching == {categories[i] : i \in {j \in 1..Len(categories) :
                 categories[j].user_id = None \/ categories[j].user_id = last.uid}}

Listed == {last.list[i] : i \in 1..Len(last.list)}

\* C8 as stated: get_categories returns exactly the stored categories whose
\* user_id is null or the requester's id.
C8_ListsExactlyGlobalAndOwn ==
    last.op = "get_categories" => Listed = Matching

\* C8 amended: get_categories returns only stored categories whose user_id
\* is null or the requester's id, each once, never another user's; it
\* returns all of them when they are at most ListLimit, and ListLimit of them
\* otherwise.
C8_ListsGlobalAndOwnUpToLimit ==
    last.op = "get_categories"
    => (/\ Listed \subseteq Matching
        /\ Len(last.list) = Cardinality(Listed)
        /\ Cardinality(Matching) <= ListLimit => Listed = Matching
        /\ Cardinality(Matching) > ListLimit => Len(last.list) = ListLimit)

\* A listing with the requester's own categories was just returned while
\* another user's category is stored.
C8_Witness ==
    /\ last.op = "get_categories"
    /\ \E c \in Listed : c.user_id = last.uid
    /\ \E i \in 1..Len(categories) : categories[i].user_id \notin {None, last.uid}

\* The auth routes over time.
NextClock ==
    \/ now < MaxNow /\ Tick
    \/ \E username \in Usernames, password \in {"pw123"} :
          /\ UsersByName(users, username) = {} =>
                Room /\ Cardinality(users) + Registering < MaxUsers
          /\ RegisterFind(username, password)
    \/ \E r \in BagToSet(reqs), salt \in {"salt-a"} : RegisterInsert(r, salt)
    \/ \E username \in Usernames, password \in Passwords : Login(username, password)
    \/ \E token \in Presentable(users, now) : Room /\ Authenticate(token)
    \/ AuthenticateNone
    \/ \E r \in BagToSet(reqs) : GetMe(r)

SpecClock == Init /\ [][NextClock]_vars

\* The request that was just authenticated presented a token signed with
\* JWT_SECRET under JWT_ALGORITHM.
Signed == last.token.key = JWT_SECRET /\ last.token.alg = JWT_ALGORITHM

\* C6 as stated: a token whose expiration instant is in the past fails with
\* "Token expirado", whether or not its signature is valid.
C6_ExpiredWhateverSignature ==
    (last.op = "auth" /\ last.token.exp < now)
    => (last.status = 401 /\ last.detail = "Token expirado")

\* C6 amended: a token whose expiration instant is in the past is refused
\* with 401; the detail is "Token expirado" when its signature is valid and
\* "Token invalido" when it is not.
C6_ExpiredNeedsValidSignature ==
    (last.op = "auth" /\ last.token.exp < now)
    => (/\ last.status = 401
        /\ last.uid = None
        /\ Signed => last.detail = "Token expirado"
        /\ ~Signed => last.detail = "Token invalido")

\* A token with a past expiration and a bad signature was just refused.
C6_Witness ==
    /\ last.op = "auth"
    /\ last.token.exp < now
    /\ ~Signed
    /\ last.status = 401

\* What every token handed out by register or login carries.
IssuedNow ==
    (last.status = 200 /\ (last.op = "login" \/ (last.op = "register" /\ last.step = "insert")))
    => (/\ last.token.exp = now + Lifetime
        /\ Lifetime * HoursPerTick = 7 * 24
        /\ last.token.user_id = last.uid
        /\ last.token.username = last.username
        /\ Signed)

\* C7 as stated: a token carries exp = t + 7 days, resolves at every instant
\* now <= exp whatever happened since it was handed out, and a validly signed
\* token is refused as expired exactly when now > exp.
C7_ValidThroughExpiry ==
    /\ IssuedNow
    /\ (last.op = "auth" /\ Signed)
       => (/\ now <= last.token.exp => (last.status = 0 /\ last.uid = last.token.user_id)
           /\ last.detail = "Token expirado" <=> now > last.token.exp)

\* C7 amended: a token carries exp = t + 7 days, resolves at every instant
\* now < exp whatever happened since it was handed out, and a validly signed
\* token is refused as expired exactly when now >= exp.
C7_ValidUntilExpiry ==
    /\ IssuedNow
    /\ (last.op = "auth" /\ Signed)
       => (/\ now < last.token.exp => (last.status = 0 /\ last.uid = last.token.user_id)
           /\ last.detail = "Token expirado" <=> now >= last.token.exp
           /\ last.status = 401 <=> now >= last.token.exp)

\* A validly signed token was just refused at the very instant it expires.
C7_Witness ==
    /\ last.op = "auth"
    /\ Signed
    /\ now = last.token.exp
    /\ last.detail = "Token expirado"
\* Every route, called one at a time, from the empty credential store.
ContentTypes == {None, "image/png"}
Files == {"png-bytes"}

\* No request is in flight: the routes are called one after another.
Idle == reqs = EmptyBag

NextAll ==
    \/ \E username \in Usernames, password \in {"pw123"} :
          /\ UsersByName(users, username) = {} =>
                Idle /\ Cardinality(users) + Registering < MaxUsers
          /\ RegisterFind(username, password)
    \/ \E r \in BagToSet(reqs), salt \in {"salt-a"} : RegisterInsert(r, salt)
    \/ \E username \in Usernames, password \in Passwords : Login(username, password)
    \/ \E token \in Presentable(users, now) : Idle /\ Authenticate(token)
    \/ AuthenticateNone
    \/ \E r \in BagToSet(reqs) : GetMe(r)
    \/ \E r \in BagToSet(reqs), content_type \in ContentTypes, contents \in Files :
          Upload(r, content_type, contents)
    \/ \E r \in BagToSet(reqs) : GetCategories(r)
    \/ \E r \in BagToSet(reqs), category_data \in CategoryData :
          Len(UserCategories(categories)) < MaxCats /\ CreateCategory(r, category_data)
    \/ \E r \in BagToSet(reqs) : GetItems(r)
    \/ \E r \in BagToSet(reqs), item_data \in ItemData :
          nextItem < MaxItems /\ CreateItem(r, item_data)
    \/ \E r \in BagToSet(reqs), item_id \in ItemIds : UpdateFind(r, item_id)
    \/ \E r \in BagToSet(reqs), item_data \in ItemPatch : UpdateWrite(r, item_data)
    \/ \E r \in BagToSet(reqs) : UpdateReread(r)
    \/ \E r \in BagToSet(reqs), item_id \in ItemIds : ToggleFind(r, item_id)
    \/ \E r \in BagToSet(reqs) : ToggleWrite(r)
    \/ \E r \in BagToSet(reqs) : ToggleReread(r)
    \/ \E r \in BagToSet(reqs), item_id \in ItemIds : DeleteItem(r, item_id)

SpecAll == Init /\ [][NextAll]_vars

\* C11: db.users changes only in a step of register, and then by gaining a
\* record: get_current_user, login and the category, item and upload routes
\* leave it as it is, and no step changes or removes a stored user record.
C11_UsersWrittenByRegisterOnly ==
    [][/\ users \subseteq users'
       /\ users' # users => (last'.op = "register" /\ last'.step = "insert")
       /\ last'.op \notin {"register", "login"} => users' = users]_vars

\* A route other than register and login has just answered a registered user.
C11_Witness ==
    /\ last.op \in {"get_me", "upload_image", "get_categories", "create_category", "get_items",
                    "create_item", "update_item", "toggle_item", "delete_item"}
    /\ last.status = 200
    /\ \E u \in users : u.id = last.uid

\* The fields of the records a response carries.
ResponseFields ==
    DOMAIN last.user \cup DOMAIN last.token \cup DOMAIN last.item \cup DOMAIN last.category
    \cup UNION {DOMAIN last.list[i] : i \in 1..Len(last.list)}

\* C12: no response carries a password_hash field; register and login answer
\* with the token and the id, username and created_at of the user record.
C12_NoPasswordHashInResponses ==
    /\ "password_hash" \notin ResponseFields
    /\ \A u \in users : u.password_hash \notin
          {last.user, last.token, last.item, last.category}
          \cup {last.list[i] : i \in 1..Len(last.list)}
    /\ (last.status = 200 /\ (last.op = "login" \/ (last.op = "register" /\ last.step = "insert")))
       => (/\ DOMAIN last.user = {"id", "username", "created_at"}
           /\ \E u \in users : /\ last.user.id = u.id
                                 /\ last.user.username = u.username
                                 /\ last.user.created_at = u.created_at
           /\ last.token # NoToken)

\* get_me has just answered with the view of a stored user.
C12_Witness ==
    /\ last.op = "get_me"
    /\ last.status = 200
    /\ \E u \in users : u.id = last.user.id /\ u.password_hash # NoHash

\* C13: a protected route called without a token, or with a token that is
\* expired or not validly signed, is refused with 401 before any data access:
\* no handler is started and db.users, db.categories and db.shopping_items
\* stay as they are.
C13_UnauthenticatedIs401 ==
    [][(\/ last'.op = "bearer"
        \/ /\ last'.op = "auth"
           /\ last'.token.key # JWT_SECRET \/ last'.token.exp <= now)
       => (/\ last'.status = 401
           /\ reqs' = reqs
           /\ users' = users
           /\ categories' = categories
           /\ items' = items)]_vars

\* Token resolution over a credential store from which records handed a
\* token have since been removed by other means than the routes.
InitResolve ==
    /\ now = 0
    /\ users \in SUBSET TwoUsers
    /\ categories = SeededCategories(0)
    /\ items = {}
    /\ nextItem = 0
    /\ reqs = EmptyBag
    /\ last = Reply("none", "none", 0, "")

NextResolve ==
    \/ now < MaxNow /\ Tick
    \/ \E token \in Presentable(TwoUsers, now) : Room /\ Authenticate(token)
    \/ \E r \in BagToSet(reqs) : GetMe(r)

SpecResolve == InitResolve /\ [][NextResolve]_vars

\* C14: resolving a validly signed, unexpired token whose user_id has no
\* record in db.users fails with 401 "Usuario nao encontrado"; no identity
\* is returned, no handler runs and the collections stay as they are.
C14_UserNotFound ==
    [][(/\ last'.op = "auth"
        /\ last'.token.key = JWT_SECRET
        /\ last'.token.alg = JWT_ALGORITHM
        /\ now < last'.token.exp
        /\ \A u \in users : u.id # last'.token.user_id)
       => (/\ last'.status = 401
           /\ last'.detail = "Usuario nao encontrado"
           /\ last'.uid = None
           /\ reqs' = reqs
           /\ UNCHANGED <<users, categories, items>>)]_vars

\* A valid token of a user whose record is gone was just refused.
C14_Witness ==
    /\ last.op = "auth"
    /\ Signed
    /\ now < last.token.exp
    /\ \A u \in users : u.id # last.token.user_id
    /\ last.detail = "Usuario nao encontrado"

\* C15: every stored item has one owner, a registered user and never null;
\* a document that a step stores or changes is owned by the user the step
\* runs for and keeps the owner its id had; a document a step removes is
\* owned by the user the step runs for; no id is stored twice.
C15_OwnerScopedWrites ==
    [][/\ \A it \in items' :
             /\ it.user_id # None
             /\ \E u \in users : u.id = it.user_id
             /\ \A other \in items' : other.id = it.id => other = it
       /\ \A it \in items' \ items :
             /\ last'.uid = it.user_id
             /\ \A old \in items : old.id = it.id => old.user_id = it.user_id
       /\ \A it \in items \ items' : last'.uid = it.user_id]_vars

\* The owner's toggle has just written the purchased flag of a stored item.
C15_Witness ==
    /\ last.op = "toggle_item"
    /\ last.step = "write"
    /\ \E it \in items : it.id = last.item_id /\ it.user_id = last.uid /\ it.is_purchased

\* The item routes called by alice while bob has an item stored.
Alice == {u \in TwoUsers : u.username = "alice"}

OwnerPatch == [description : {None, "Bread"}, photo_url : {None, "data:image/png"},
               category_id : {None}]

InitOwner ==
    /\ now = 0
    /\ users = TwoUsers
    /\ categories = SeededCategories(0)
    /\ items = {ShoppingItem(CHOOSE d \in ItemData : TRUE, Uuid("user-", 2), Uuid("item-", 1), 0)}
    /\ nextItem = 1
    /\ reqs = EmptyBag
    /\ last = Reply("none", "none", 0, "")

NextOwner ==
    \/ \E token \in Issued(Alice, now) : Room /\ Authenticate(token)
    \/ \E r \in BagToSet(reqs) : GetItems(r)
    \/ \E r \in BagToSet(reqs), item_data \in ItemData :
          nextItem < MaxItems + 1 /\ CreateItem(r, item_data)
    \/ \E r \in BagToSet(reqs), item_id \in ItemIds : UpdateFind(r, item_id)
    \/ \E r \in BagToSet(reqs), item_data \in OwnerPatch : UpdateWrite(r, item_data)
    \/ \E r \in BagToSet(reqs) : UpdateReread(r)
    \/ \E r \in BagToSet(reqs), item_id \in ItemIds : ToggleFind(r, item_id)
    \/ \E r \in BagToSet(reqs) : ToggleWrite(r)
    \/ \E r \in BagToSet(reqs) : ToggleReread(r)
    \/ \E r \in BagToSet(reqs), item_id \in ItemIds : DeleteItem(r, item_id)

SpecOwner == InitOwner /\ [][NextOwner]_vars

\* C16: two toggles of the owner may both read the same stored item; each
\* update_one stores the negation of the flag its own request read, so the
\* flag after the later write is the negation of what the later writer read
\* and two toggles may flip the flag once.
C16_ToggleLastWriteWins ==
    [][\A r \in ToggleWriting :
          \A it \in items' : it.id = r.item_id => it.is_purchased = ~r.item.is_purchased]_vars

\* Two toggles that read the same document have both written: the flag is
\* the negation of what both read.
C16_Witness ==
    /\ last.op = "toggle_item"
    /\ last.step = "write"
    /\ \E r \in InFlight("tog_reread") :
          /\ CopiesIn(r, reqs) = 2
          /\ \E it \in items : it.id = r.item_id /\ it.is_purchased = ~r.item.is_purchased

\* C17: an update_item or toggle_item request ends with the item (200) or
\* with 404, whatever runs between its steps.
C17_ItemOrNotFound ==
    (last.op \in {"update_item", "toggle_item"} /\ last.status # 0)
    => last.status \in {200, 404}

\* The stored items changed by the update_one of update_item in this step,
\* each with the document the patch of the step makes of it.
Patched ==
    {<<it, [id |-> it.id, user_id |-> it.user_id, is_purchased |-> it.is_purchased,
            created_at |-> it.created_at, updated_at |-> now,
            description |-> IF last'.patch.description # None
                            THEN last'.patch.description ELSE it.description,
            photo_url |-> IF last'.patch.photo_url # None
                          THEN last'.patch.photo_url ELSE it.photo_url,
            category_id |-> IF last'.patch.category_id # None
                            THEN last'.patch.category_id ELSE it.category_id]>> :
        it \in {x \in items : x.id = last'.item_id}}

\* C18: the update_one of update_item on a stored item of the requester
\* changes the fields supplied non-null and updated_at, in one step; id,
\* owner, purchased flag, created_at and the fields not supplied keep their
\* values, and every other item is as it was.
C18_UpdateFrame ==
    [][(last'.op = "update_item" /\ last'.step = "write")
       => \A p \in Patched :
             /\ p[1].user_id = last'.uid
             /\ items' = (items \ {p[1]}) \cup {p[2]}]_vars

\* An update that supplied only a description has just been written while
\* another item is stored.
C18_Witness ==
    /\ last.op = "update_item"
    /\ last.step = "write"
    /\ last.patch.description = "Bread"
    /\ last.patch.photo_url = None
    /\ \E it \in items : it.id = last.item_id /\ it.description = "Bread"
    /\ \E it \in items : it.id # last.item_id

\* The ids of the stored items.
StoredIds == {it.id : it \in items}

\* C19: a successful delete_item removes the requester's item of that id and
\* nothing else; an id that was drawn and is not stored is never stored
\* again, also when an update_one for it runs after the delete; update,
\* toggle and delete requests that name an id not stored answer 404.
C19_DeletedStaysDeleted ==
    [][/\ (last'.op = "delete_item" /\ last'.status = 200)
          => \E it \in items : /\ it.id = last'.item_id
                                /\ it.user_id = last'.uid
                                /\ items' = items \ {it}
       /\ \A n \in 1..nextItem :
             Uuid("item-", n) \notin StoredIds => \A it \in items' : it.id # Uuid("item-", n)
       /\ (/\ last'.op \in {"update_item", "toggle_item", "delete_item"}
           /\ last'.step \in {"find", "delete"}
           /\ last'.item_id \notin StoredIds)
          => (last'.status = 404 /\ items' = items)]_vars

\* The update_one of an update or toggle has just run for an id that a
\* delete removed meanwhile.
C19_Witness ==
    /\ last.op \in {"update_item", "toggle_item"}
    /\ last.step = "write"
    /\ last.item_id \notin StoredIds
    /\ Cardinality(items) = 1

\* The service started on an empty store and restarted at will: seeding,
\* then registrations and the category routes, called one after another.  A
\* tick of the clock is a token lifetime, so the clock stands while the
\* startup task runs.
InitStartup ==
    /\ now = 0
    /\ users = {}
    /\ categories = <<>>
    /\ items = {}
    /\ nextItem = 0
    /\ reqs = SetToBag({[Request("seed_find", NoUser) EXCEPT !.cat = 1]})
    /\ last = Reply("startup", "start", 0, "")

NextStartup ==
    \/ Startup
    \/ \E r \in BagToSet(reqs) : SeedFind(r)
    \/ \E r \in BagToSet(reqs) : SeedInsert(r)
    \/ Serving /\ now < MaxNow /\ Tick
    \/ \E username \in Usernames, password \in {"pw123"} :
          /\ Serving
          /\ UsersByName(users, username) = {} =>
                Idle /\ Cardinality(users) + Registering < MaxUsers
          /\ RegisterFind(username, password)
    \/ \E r \in BagToSet(reqs), salt \in {"salt-a"} : RegisterInsert(r, salt)
    \/ \E token \in Issued(users, now) : Serving /\ Idle /\ Authenticate(token)
    \/ \E r \in BagToSet(reqs) : GetCategories(r)
    \/ \E r \in BagToSet(reqs), category_data \in CategoryData :
          Len(UserCategories(categories)) < MaxCats /\ CreateCategory(r, category_data)

SpecStartup == InitStartup /\ [][NextStartup]_vars

\* The positions in db.categories of the documents with the id of the i-th
\* default category.
SeedPositions(i) == {j \in 1..Len(categories) : categories[j].id = default_categories[i].id}

\* Every default category is stored once, with user_id null and the name,
\* color and icon of the source.
AllSeeded ==
    \A i \in 1..Len(default_categories) :
        /\ Cardinality(SeedPositions(i)) = 1
        /\ \A j \in SeedPositions(i) :
              /\ categories[j].user_id = None
              /\ categories[j].name = default_categories[i].name
              /\ categories[j].color = default_categories[i].color
              /\ categories[j].icon = default_categories[i].icon

\* C20: once initialize_default_categories has returned, cat-1 .. cat-8 are
\* stored once each with user_id null, they are the only categories without
\* an owner and every category listing has at least eight entries; a later
\* run of the startup task inserts nothing and leaves every stored category,
\* seeded or user-owned, as it was.
C20_SeedingIdempotent ==
    /\ [](Serving => (AllSeeded /\ Len(GlobalCategories) = 8))
    /\ [](last.op = "get_categories" => Len(last.list) >= 8)
    /\ [][(last'.op = "startup" /\ AllSeeded) => categories' = categories]_vars
    /\ [][last'.op = "startup" =>
            (/\ Len(categories') >= Len(categories)
             /\ SubSeq(categories', 1, Len(categories)) = categories)]_vars

\* A run of the startup task has just returned on a store that already held
\* the seeded categories and a category of a user.
C20_Witness ==
    /\ last.op = "startup"
    /\ last.step = "find"
    /\ Serving
    /\ Len(categories) > Len(default_categories)
====
